---- MODULE Spec2Model ----
(***************************************************************************)
(* Model of the insight pipeline of the financial coach backend:           *)
(*   coach/services/insights.py  InsightService (metrics, model call,      *)
(*                               fallback, persist)                        *)
(*   coach/main.py               /api/insights, /api/insights/generate,    *)
(*                               /api/insights/{id}/read                   *)
(*   coach/database.py           get_db (session per request)              *)
(* Money is kept in integer cents; a calendar date is a record [y, m, d].  *)
(***************************************************************************)
EXTENDS Integers, Sequences, FiniteSets, TLC

VARIABLES
    today,      \* date.today() as seen by the metrics step
    ledger,     \* rows of the transactions table
    users,      \* rows of the users table
    insights,   \* committed rows of the insights table, in id order
    run,        \* one generate_proactive_insights invocation per slot
    now,        \* the store's clock
    resp,       \* what the handler that completed in this step returned
    snapshot,   \* the last value returned by _get_user_metrics on its own
    sessions    \* the in-memory dict of chat histories, by thread_id

vars == <<today, ledger, users, insights, run, now, resp, snapshot, sessions>>

----------------------------------------------------------------------------
(* Bounds of the model *)

FirstYear == 2023
NumYears == 2
MaxTx == 2
MaxClock == 2
MaxRequests == 4
MaxMarked == 1
MaxMarkRequests == 2
\* the longest chat history a thread may reach
MaxHistory == 3

----------------------------------------------------------------------------
(* Calendar arithmetic of datetime.date, as used by _get_user_metrics *)

Date(y, m, d) == [y |-> y, m |-> m, d |-> d]

IsLeap(y) == (y % 4 = 0) /\ ((y % 100 # 0) \/ (y % 400 = 0))

DaysInMonth(y, m) ==
    IF m = 2 THEN (IF IsLeap(y) THEN 29 ELSE 28)
    ELSE IF m \in {4, 6, 9, 11} THEN 30 ELSE 31

DaysBeforeYear(y) ==
    LET p == y - 1 IN p * 365 + (p \div 4) - (p \div 100) + (p \div 400)

RECURSIVE DaysBeforeMonth(_, _)
DaysBeforeMonth(y, m) ==
    IF m = 1 THEN 0 ELSE DaysBeforeMonth(y, m - 1) + DaysInMonth(y, m - 1)

\* date.toordinal(): 1 for 0001-01-01
ToOrdinal(dt) == DaysBeforeYear(dt.y) + DaysBeforeMonth(dt.y, dt.m) + dt.d

\* date.fromordinal(): the 400/100/4/1-year cycle decomposition
FromOrdinal(n) ==
    LET n0   == n - 1
        n400 == n0 \div 146097
        r400 == n0 % 146097
        n100 == r400 \div 36524
        r100 == r400 % 36524
        n4   == r100 \div 1461
        r4   == r100 % 1461
        n1   == r4 \div 365
        r1   == r4 % 365
        year == n400 * 400 + 1 + n100 * 100 + n4 * 4 + n1
    IN  IF n1 = 4 \/ n100 = 4
        THEN Date(year - 1, 12, 31)
        ELSE LET month == CHOOSE k \in 1..12 :
                            /\ DaysBeforeMonth(year, k) <= r1
                            /\ r1 < DaysBeforeMonth(year, k) + DaysInMonth(year, k)
             IN  Date(year, month, r1 - DaysBeforeMonth(year, month) + 1)

\* date - timedelta(days=k)
MinusDays(dt, k) == FromOrdinal(ToOrdinal(dt) - k)

\* date.replace(day=1)
ReplaceDay1(dt) == Date(dt.y, dt.m, 1)

\* date >= date: dates compare as (year, month, day)
DateGE(a, b) ==
    \/ a.y > b.y
    \/ a.y = b.y /\ a.m > b.m
    \/ a.y = b.y /\ a.m = b.m /\ a.d >= b.d

DateLE(a, b) == DateGE(b, a)

\* date.strftime("%B")
MonthName(m) ==
    <<"January", "February", "March", "April", "May", "June", "July",
      "August", "September", "October", "November", "December">>[m]

----------------------------------------------------------------------------
(* _get_user_metrics *)

NULL == "NULL"                       \* SQL NULL / Python None in a text column
DefaultGoals == "No specific goals set."
NoCategoryLabel == "N/A"

StartOfMonth(t) == ReplaceDay1(t)

\* the rolling-window slip: thirty days back from today instead of the
\* calendar month before
PriorPeriodRolling(t) ==
    [start |-> MinusDays(t, 30), end |-> MinusDays(StartOfMonth(t), 1)]

\* last_month_start, last_month_end
PriorPeriod(t) ==
    LET last_month_end == MinusDays(StartOfMonth(t), 1)
    IN  [start |-> ReplaceDay1(last_month_end), end |-> last_month_end]

RECURSIVE SumAmounts(_)
SumAmounts(rows) ==
    IF rows = {} THEN 0
    ELSE LET r == CHOOSE x \in rows : TRUE
         IN  r.amount + SumAmounts(rows \ {r})

\* select(func.sum(amount)).scalar() or Decimal('0')
SumOrZero(rows) == IF rows = {} THEN 0 ELSE SumAmounts(rows)

\* WHERE user_id = :uid AND transaction_type = 'debit' AND date >= :start_of_month
CurrentRows(rows, uid, t) ==
    {r \in rows : /\ r.user_id = uid
                  /\ r.transaction_type = "debit"
                  /\ DateGE(r.date, StartOfMonth(t))}

\* WHERE ... AND date >= :last_month_start AND date <= :last_month_end
PriorRows(rows, uid, t) ==
    {r \in rows : /\ r.user_id = uid
                  /\ r.transaction_type = "debit"
                  /\ DateGE(r.date, PriorPeriod(t).start)
                  /\ DateLE(r.date, PriorPeriod(t).end)}

\* GROUP BY category over the categorized current rows
CategoryTotals(rows, uid, t) ==
    LET cat == {r \in CurrentRows(rows, uid, t) : r.category # NULL}
    IN  {[category |-> c, total |-> SumAmounts({r \in cat : r.category = c})] :
            c \in {r.category : r \in cat}}

\* ORDER BY total DESC LIMIT 1 .first(): any row of maximal total (the order
\* among equal totals is the store's choice), or no row
TopCategoryRows(rows, uid, t) ==
    LET g == CategoryTotals(rows, uid, t)
    IN  IF g = {} THEN {[category |-> NoCategoryLabel, total |-> 0]}
        ELSE {x \in g : \A z \in g : z.total <= x.total}

\* select(User).where(User.id_ == user_id) ... goals
GoalsOf(utab, uid) ==
    LET hit == {u \in utab : u.id = uid}
    IN  IF hit = {} THEN DefaultGoals ELSE (CHOOSE u \in hit : TRUE).financial_goals

\* float(Decimal): the amounts stay in cents, the float being the nearest
\* double to cents/100
ToFloat(cents) == cents

\* the dicts _get_user_metrics can return
UserMetrics(rows, utab, uid, t) ==
    {[current_month_spending |-> ToFloat(SumOrZero(CurrentRows(rows, uid, t))),
      last_month_spending    |-> ToFloat(SumOrZero(PriorRows(rows, uid, t))),
      top_category           |-> top.category,
      top_category_amount    |-> ToFloat(top.total),
      user_goals             |-> GoalsOf(utab, uid),
      month_name             |-> MonthName(t.m)] :
        top \in TopCategoryRows(rows, uid, t)}

----------------------------------------------------------------------------
(* JSON values, and the text the model returns *)

\* One shape for every JSON value, so that values of different kinds compare.
JVal(kind, items, keys, title, message, type, text) ==
    [kind |-> kind, items |-> items, keys |-> keys, title |-> title,
     message |-> message, type |-> type, text |-> text]

JNull == JVal("null", <<>>, {}, "", <<>>, "", "")
JNum == JVal("number", <<>>, {}, "", <<>>, "", "")
JStr(s) == JVal("string", <<>>, {}, "", <<>>, "", s)
JArr(items) == JVal("array", items, {}, "", <<>>, "", "")
\* an object with the given keys; a key that is absent has no value
JObj(keys, title, message, type) ==
    JVal("object", <<>>, keys,
         IF "title" \in keys THEN title ELSE "",
         IF "message" \in keys THEN message ELSE <<>>,
         IF "type" \in keys THEN type ELSE "", "")

DraftKeys == {"title", "message", "type"}

\* A response text is a sequence of chunks: the fence ```, the word json,
\* prose, whitespace, or the text of one JSON value.
Chunk(k, v) == [k |-> k, v |-> v]
FENCE == Chunk("fence", JNull)
JSONWORD == Chunk("json", JNull)
PROSE == Chunk("text", JNull)
WS == Chunk("ws", JNull)
Payload(v) == Chunk("payload", v)
\* the text of a JSON value one of whose strings holds three backticks: the
\* part before them and the part after them, the backticks being a FENCE chunk
Open(v) == Chunk("open", v)
Close(v) == Chunk("close", v)

\* "```" in content
HasFence(c) == \E i \in 1..Len(c) : c[i].k = "fence"

\* "```json" in content
HasFenceJson(c) ==
    \E i \in 1..(Len(c) - 1) : c[i].k = "fence" /\ c[i + 1].k = "json"

FirstFence(c) == CHOOSE i \in 1..Len(c) :
    /\ c[i].k = "fence"
    /\ \A j \in 1..(i - 1) : c[j].k # "fence"

FirstFenceJson(c) == CHOOSE i \in 1..(Len(c) - 1) :
    /\ c[i].k = "fence" /\ c[i + 1].k = "json"
    /\ \A j \in 1..(i - 1) : ~(c[j].k = "fence" /\ c[j + 1].k = "json")

\* x.split("```")[0]
BeforeFence(c) == IF HasFence(c) THEN SubSeq(c, 1, FirstFence(c) - 1) ELSE c

\* content.split("```json")[1].split("```")[0]: the next "```json", if any,
\* begins with a fence, so the second split cuts at the first fence
AfterFenceJson(c) == BeforeFence(SubSeq(c, FirstFenceJson(c) + 2, Len(c)))

\* content.split("```")[1].split("```")[0]
AfterFence(c) == BeforeFence(SubSeq(c, FirstFence(c) + 1, Len(c)))

\* str.strip()
RECURSIVE Strip(_)
Strip(c) ==
    IF c = <<>> THEN c
    ELSE IF c[1].k = "ws" THEN Strip(Tail(c))
    ELSE IF c[Len(c)].k = "ws" THEN Strip(SubSeq(c, 1, Len(c) - 1))
    ELSE c

\* lines 125-128
CleanContent(c) ==
    IF HasFenceJson(c) THEN Strip(AfterFenceJson(c))
    ELSE IF HasFence(c) THEN Strip(AfterFence(c))
    ELSE c

\* json.loads: one JSON value, surrounding whitespace allowed
JsonLoads(c) ==
    LET core == Strip(c)
    IN  IF Len(core) = 1 /\ core[1].k = "payload"
        THEN [ok |-> TRUE, value |-> core[1].v]
        ELSE IF /\ Len(core) = 3
                /\ core[1].k = "open" /\ core[2].k = "fence" /\ core[3].k = "close"
                /\ core[1].v = core[3].v
        THEN [ok |-> TRUE, value |-> core[1].v]
        ELSE [ok |-> FALSE, value |-> JNull]

FallbackTitle == "Spending Update"

\* A message is a sequence of parts of one shape: a piece of text, or the
\* digits of a number.
Text(s) == [num |-> FALSE, lit |-> s, whole |-> 0, frac |-> <<>>]

\* str(float) as an f-string field renders it: the shortest decimal that reads
\* back as the same double, with at least one digit after the point
\* (450.0, 120.5, 120.05)
FloatStr(cents) ==
    [num |-> TRUE, lit |-> "", whole |-> cents \div 100,
     frac |-> IF cents % 10 = 0 THEN <<(cents % 100) \div 10>>
              ELSE <<(cents % 100) \div 10, cents % 10>>]

\* the f-string of line 136
FallbackMessage(m) ==
    <<Text("You've spent $"), FloatStr(m.current_month_spending),
      Text(" so far in "), Text(m.month_name),
      Text(". Keep an eye on your "), Text(m.top_category), Text(" spending!")>>

\* the list of the except branch
Fallback(m) ==
    JArr(<<JObj(DraftKeys, FallbackTitle, FallbackMessage(m), "trend")>>)

\* the except branch left out: the failure leaves the generator
AskResultNoExcept(outcome, m) ==
    IF outcome.raised THEN [raised |-> TRUE, value |-> JNull]
    ELSE LET parsed == JsonLoads(CleanContent(outcome.content))
         IN  IF parsed.ok THEN [raised |-> FALSE, value |-> parsed.value]
             ELSE [raised |-> TRUE, value |-> JNull]

\* one handler per kind of failure, each with its own wording: a raised call
\* gets another title than an answer that does not parse
AskResultPerFailure(outcome, m) ==
    IF outcome.raised
    THEN [raised |-> FALSE,
          value |-> JArr(<<JObj(DraftKeys, "Coach Unavailable", FallbackMessage(m), "trend")>>)]
    ELSE LET parsed == JsonLoads(CleanContent(outcome.content))
         IN  IF parsed.ok THEN [raised |-> FALSE, value |-> parsed.value]
             ELSE [raised |-> FALSE, value |-> Fallback(m)]

\* an emptiness test put on the parsed value: no draft counts as a failure
AskResultEmptyFallback(outcome, m) ==
    IF outcome.raised THEN [raised |-> FALSE, value |-> Fallback(m)]
    ELSE LET parsed == JsonLoads(CleanContent(outcome.content))
         IN  IF parsed.ok /\ parsed.value # JArr(<<>>)
             THEN [raised |-> FALSE, value |-> parsed.value]
             ELSE [raised |-> FALSE, value |-> Fallback(m)]

\* _ask_ai_for_insight: what it returns, or that it raised, for an outcome
\* of llm.ainvoke (an exception, or a response text)
AskResult(outcome, m) ==
    IF outcome.raised THEN [raised |-> FALSE, value |-> Fallback(m)]
    ELSE LET parsed == JsonLoads(CleanContent(outcome.content))
         IN  IF parsed.ok THEN [raised |-> FALSE, value |-> parsed.value]
             ELSE [raised |-> FALSE, value |-> Fallback(m)]

\* for item in insight_data: the items, or that the value is not iterable
Iterate(v) ==
    IF v.kind = "array" THEN [ok |-> TRUE, items |-> v.items]
    ELSE IF v.kind = "object"
    THEN [ok |-> TRUE,
          items |-> IF v.keys = {} THEN <<>>
                    ELSE <<JStr(CHOOSE k \in v.keys : TRUE)>>]
    ELSE IF v.kind = "string"
    THEN [ok |-> TRUE, items |-> IF v.text = "" THEN <<>> ELSE <<JStr("c")>>]
    ELSE [ok |-> FALSE, items |-> <<>>]

\* item['title'], item['message'], item['type']: "ok", or the exception
Subscript(item) ==
    IF item.kind # "object" THEN "TypeError"
    ELSE IF DraftKeys \subseteq item.keys THEN "ok"
    ELSE "KeyError"

----------------------------------------------------------------------------
(* The tables and the inputs *)

DemoUser == 1
InsightLimit == 5
UserIds == {1, 2}
Runs == {1, 2}

Tx(id, uid, ttype, amount, date, category) ==
    [id |-> id, user_id |-> uid, transaction_type |-> ttype, amount |-> amount,
     date |-> date, category |-> category]

UserRow(id, goals) == [id |-> id, financial_goals |-> goals]

\* dict(metrics) is true unless the dict is empty
Truthy(d) == DOMAIN d # {}

UnsetMetrics ==
    [current_month_spending |-> 0, last_month_spending |-> 0,
     top_category |-> "", top_category_amount |-> 0,
     user_goals |-> "", month_name |-> ""]

\* drafts the generative model can put in its answer
DraftA == JObj(DraftKeys, "T1", <<Text("M1")>>, "alert")
DraftB == JObj(DraftKeys, "T2", <<Text("M2")>>, "achievement")
DraftNoMessage == JObj({"title", "type"}, "T3", <<>>, "trend")
\* a complete draft whose type is none of trend, alert, achievement
DraftOffEnum == JObj(DraftKeys, "T4", <<Text("M4")>>, "warning")

\* a complete draft whose message shows three backticks
Backticks == Text("<three backticks>")
DraftBackticks == JObj(DraftKeys, "T5", <<Text("M5 "), Backticks, Text(" M5")>>, "trend")

Said(content) == [raised |-> FALSE, content |-> content]
Raised == [raised |-> TRUE, content |-> <<>>]

\* what llm.ainvoke can do: raise, or return one of these texts
WellFormedValues == {JArr(<<DraftA, DraftB>>), JArr(<<DraftA>>), JArr(<<>>)}

MalformedValues ==
    {JObj(DraftKeys, "T1", <<Text("M1")>>, "alert"),       \* an object, not an array
     JArr(<<DraftNoMessage>>),                        \* an item without message
     JArr(<<DraftA, DraftNoMessage>>)}

\* arrays of complete drafts with a type outside the documented values
OffEnumValues == {JArr(<<DraftA, DraftOffEnum>>)}

Outcomes ==
    {Raised, Said(<<PROSE>>), Said(<<FENCE, JSONWORD, WS, Payload(JArr(<<DraftA>>)), WS, FENCE>>)}
    \cup {Said(<<Payload(v)>>) :
              v \in WellFormedValues \cup MalformedValues \cup OffEnumValues}

\* the answers used where the store, not the parsing, is under study
StoreOutcomes == {Raised, Said(<<Payload(JArr(<<DraftA, DraftB>>))>>)}

IdleRun ==
    [pc |-> "idle", user_id |-> 0, metrics |-> UnsetMetrics, data |-> JNull,
     idx |-> 0, pending |-> <<>>, txn |-> FALSE, begun |-> 0, err |-> "",
     count |-> 0, asked |-> FALSE, reply |-> Raised]

\* a handler's return value (or HTTP error), present for one step
\* was_read records, for a mark-read call, whether the row was read before it
Response(op, status, count, items) ==
    [op |-> op, status |-> status, count |-> count, items |-> items,
     was_read |-> FALSE]
NoResp == Response("", 0, 0, <<>>)

\* chat: a message, and the entry of one thread_id in the sessions dict
Msg(role, content) == [role |-> role, content |-> content]
Entry(history) == [present |-> TRUE, history |-> history]
NoEntry == [present |-> FALSE, history |-> <<>>]
Threads == {"demo_session_1", "t2"}
NoSessions == [t \in Threads |-> NoEntry]
UserTexts == {"q1", "q2"}
AgentReply == "a1"
\* the conversation_history a request can carry
RequestHistories == {<<>>, <<Msg("user", "h1")>>}

\* the locals and the result of one _get_user_metrics call
MetricsCall(t, m) ==
    [computed |-> TRUE, start_of_month |-> StartOfMonth(t),
     last_month_start |-> PriorPeriod(t).start,
     last_month_end |-> PriorPeriod(t).end, metrics |-> m]

NoCall ==
    [computed |-> FALSE, start_of_month |-> Date(1, 1, 1),
     last_month_start |-> Date(1, 1, 1), last_month_end |-> Date(1, 1, 1),
     metrics |-> UnsetMetrics]

----------------------------------------------------------------------------
(* The insights table *)

\* the owner taken from the demo constant instead of the argument
NewInsightDemoUser(uid, item) ==
    [user_id |-> DemoUser, title |-> item.title, message |-> item.message,
     type |-> item.type]

\* Insight(user_id=..., title=item['title'], message=item['message'],
\* type=item['type']) as held by the session before the commit
NewInsight(uid, item) ==
    [user_id |-> uid, title |-> item.title, message |-> item.message,
     type |-> item.type]

\* the row the store makes of a pending insight: the next identifier, unread,
\* stamped with the time of the transaction
StoredRow(p, id, stamp, r) ==
    [id_ |-> id, user_id |-> p.user_id, title |-> p.title, message |-> p.message,
     type |-> p.type, created_at |-> stamp, is_read |-> FALSE, run |-> r]

\* insights.user_id references users.id_
ForeignKeyOk(utab, pending) ==
    \A i \in 1..Len(pending) : \E u \in utab : u.id = pending[i].user_id

\* the rows one commit inserts, in the order they were added
InsertAll(tab, pending, stamp, r) ==
    tab \o [i \in 1..Len(pending) |-> StoredRow(pending[i], Len(tab) + i, stamp, r)]

----------------------------------------------------------------------------
(* generate_proactive_insights, one step per suspension point and per item *)

\* an exception leaves the service and the handler: get_db closes the
\* session, which drops what was added and ends its transaction
Raise(r, e) ==
    /\ run' = [run EXCEPT ![r].pc = "error", ![r].err = e,
                          ![r].pending = <<>>, ![r].txn = FALSE]
    /\ resp' = Response("generate", 500, 0, <<>>)

\* POST /api/insights/generate (or another caller of the service) begins,
\* `later` clock readings after the request before it
Start(r, uid, later) ==
    /\ run[r].pc = "idle"
    /\ run' = [run EXCEPT ![r] = [IdleRun EXCEPT !.pc = "metrics", !.user_id = uid]]
    /\ now' = now + later
    /\ resp' = NoResp
    /\ UNCHANGED <<sessions, today, ledger, users, insights, snapshot>>

\* metrics = await self._get_user_metrics(db, user_id); if not metrics: return []
ReadMetrics(r) ==
    /\ run[r].pc = "metrics"
    /\ \E m \in UserMetrics(ledger, users, run[r].user_id, today) :
          IF Truthy(m)
          THEN /\ run' = [run EXCEPT ![r].pc = "generate", ![r].metrics = m,
                                     ![r].txn = TRUE, ![r].begun = now]
               /\ resp' = NoResp
          ELSE /\ run' = [run EXCEPT ![r].pc = "done", ![r].metrics = m,
                                     ![r].txn = FALSE, ![r].begun = now]
               /\ resp' = Response("generate", 200, 0, <<>>)
    /\ UNCHANGED <<sessions, today, ledger, users, insights, now, snapshot>>

\* insight_data = await self._ask_ai_for_insight(metrics)
AskAI(r, outcome) ==
    /\ run[r].pc = "generate"
    /\ LET res == AskResult(outcome, run[r].metrics)
       IN  IF res.raised
           THEN /\ run' = [run EXCEPT ![r].pc = "error", ![r].err = "ModelError",
                                      ![r].pending = <<>>, ![r].txn = FALSE,
                                      ![r].asked = TRUE, ![r].reply = outcome]
                /\ resp' = Response("generate", 500, 0, <<>>)
           ELSE /\ run' = [run EXCEPT ![r].pc = "persist", ![r].data = res.value,
                                      ![r].idx = 1, ![r].asked = TRUE,
                                      ![r].reply = outcome]
                /\ resp' = NoResp
    /\ UNCHANGED <<sessions, today, ledger, users, insights, now, snapshot>>

\* the slip of committing inside the loop: each insight is written to the
\* store as soon as it is added
PersistStepAutocommit(r) ==
    /\ run[r].pc = "persist"
    /\ LET it == Iterate(run[r].data)
       IN  IF ~it.ok THEN Raise(r, "TypeError") /\ insights' = insights
           ELSE IF run[r].idx > Len(it.items)
           THEN /\ run' = [run EXCEPT ![r].pc = "commit"]
                /\ resp' = NoResp
                /\ insights' = insights
           ELSE LET item == it.items[run[r].idx]
                IN  IF Subscript(item) # "ok"
                    THEN Raise(r, Subscript(item)) /\ insights' = insights
                    ELSE /\ run' = [run EXCEPT ![r].idx = @ + 1]
                         /\ resp' = NoResp
                         /\ insights' = InsertAll(insights,
                                <<NewInsight(run[r].user_id, item)>>, run[r].begun, r)
    /\ UNCHANGED <<sessions, today, ledger, users, now, snapshot>>

\* one turn of "for item in insight_data": build the Insight, db.add it
PersistStep(r) ==
    /\ run[r].pc = "persist"
    /\ LET it == Iterate(run[r].data)
       IN  IF ~it.ok THEN Raise(r, "TypeError")
           ELSE IF run[r].idx > Len(it.items)
           THEN /\ run' = [run EXCEPT ![r].pc = "commit"]
                /\ resp' = NoResp
           ELSE LET item == it.items[run[r].idx]
                IN  IF Subscript(item) # "ok" THEN Raise(r, Subscript(item))
                    ELSE /\ run' = [run EXCEPT
                                ![r].pending = Append(@, NewInsight(run[r].user_id, item)),
                                ![r].idx = @ + 1]
                         /\ resp' = NoResp
    /\ UNCHANGED <<sessions, today, ledger, users, insights, now, snapshot>>

\* a commit that refreshes: the insights the user already has are replaced
\* by the new ones
CommitReplacing(r, storeUp) ==
    /\ run[r].pc = "commit"
    /\ IF storeUp /\ ForeignKeyOk(users, run[r].pending)
       THEN /\ insights' = InsertAll(
                   SelectSeq(insights, LAMBDA x : x.user_id # run[r].user_id),
                   run[r].pending, run[r].begun, r)
            /\ run' = [run EXCEPT ![r].pc = "done", ![r].txn = FALSE,
                                  ![r].count = Len(run[r].pending),
                                  ![r].pending = <<>>]
            /\ resp' = Response("generate", 200, Len(run[r].pending), <<>>)
       ELSE /\ insights' = insights
            /\ Raise(r, "PersistenceFailure")
    /\ UNCHANGED <<sessions, today, ledger, users, now, snapshot>>

\* await db.commit(); return new_insights; the handler answers with the count
Commit(r, storeUp) ==
    /\ run[r].pc = "commit"
    /\ IF storeUp /\ ForeignKeyOk(users, run[r].pending)
       THEN /\ insights' = InsertAll(insights, run[r].pending, run[r].begun, r)
            /\ run' = [run EXCEPT ![r].pc = "done", ![r].txn = FALSE,
                                  ![r].count = Len(run[r].pending),
                                  ![r].pending = <<>>]
            /\ resp' = Response("generate", 200, Len(run[r].pending), <<>>)
       ELSE /\ insights' = insights
            /\ Raise(r, "PersistenceFailure")
    /\ UNCHANGED <<sessions, today, ledger, users, now, snapshot>>

\* the request is over; the slot serves the next request
Finish(r) ==
    /\ run[r].pc \in {"done", "error"}
    /\ run' = [run EXCEPT ![r] = IdleRun]
    /\ resp' = NoResp
    /\ UNCHANGED <<sessions, today, ledger, users, insights, now, snapshot>>

\* time passes at the store
Tick ==
    /\ now < MaxClock
    /\ now' = now + 1
    /\ resp' = NoResp
    /\ UNCHANGED <<sessions, today, ledger, users, insights, run, snapshot>>

----------------------------------------------------------------------------
(* GET /api/insights and PATCH /api/insights/{insight_id}/read *)

\* ORDER BY created_at DESC LIMIT k over a set of rows: every order the store
\* may return (rows of equal created_at come in any order)
RECURSIVE NewestFirst(_, _)
NewestFirst(rows, k) ==
    IF k = 0 \/ rows = {} THEN {<<>>}
    ELSE UNION {{<<x>> \o rest : rest \in NewestFirst(rows \ {x}, k - 1)} :
                  x \in {y \in rows : \A z \in rows : z.created_at <= y.created_at}}

\* the same query without the WHERE user_id clause
SelectInsightsAnyUser(tab, uid, k) ==
    NewestFirst({tab[i] : i \in 1..Len(tab)}, k)

\* select(Insight).where(user_id == :uid).order_by(desc(created_at)).limit(k)
SelectInsights(tab, uid, k) ==
    NewestFirst({tab[i] : i \in {j \in 1..Len(tab) : tab[j].user_id = uid}}, k)

\* the JSON of one insight: the run column is not part of it
Shown(row) ==
    [id |-> row.id_, title |-> row.title, message |-> row.message,
     type |-> row.type, created_at |-> row.created_at, is_read |-> row.is_read]

GetInsights ==
    /\ \E rows \in SelectInsights(insights, DemoUser, InsightLimit) :
          resp' = Response("list", 200, 0, [i \in 1..Len(rows) |-> Shown(rows[i])])
    /\ UNCHANGED <<sessions, today, ledger, users, insights, run, now, snapshot>>

\* a comparison slip in the lookup: any row up to the identifier matches
FindInsightAtMost(tab, id) == {i \in 1..Len(tab) : tab[i].id_ <= id}

\* select(Insight).where(Insight.id_ == insight_id): the positions that match
FindInsight(tab, id) == {i \in 1..Len(tab) : tab[i].id_ = id}

\* an UPDATE without its WHERE clause: every row is set
MarkedAll(tab, i) == [j \in 1..Len(tab) |-> [tab[j] EXCEPT !.is_read = TRUE]]

\* the flag is flipped instead of set
MarkedToggled(tab, i) == [tab EXCEPT ![i].is_read = ~@]

\* insight.is_read = True on the row found
Marked(tab, i) == [tab EXCEPT ![i].is_read = TRUE]

MarkInsightAsRead(id, storeUp) ==
    /\ LET hit == FindInsight(insights, id)
       IN  IF hit = {}
           THEN /\ resp' = Response("mark_read", 404, 0, <<>>)
                /\ insights' = insights
           ELSE IF storeUp
           THEN LET i == CHOOSE k \in hit : \A j \in hit : k <= j
                IN  /\ insights' = Marked(insights, i)
                    /\ resp' = [Response("mark_read", 200, 0, <<>>)
                                  EXCEPT !.was_read = insights[i].is_read]
           ELSE /\ insights' = insights
                /\ resp' = Response("mark_read", 500, 0, <<>>)
    /\ UNCHANGED <<sessions, today, ledger, users, run, now, snapshot>>

\* WHERE user_id = :uid AND transaction_type = :ttype
RowsOfType(rows, uid, ttype) ==
    {r \in rows : r.user_id = uid /\ r.transaction_type = ttype}

\* ... AND date >= :start_of_month
MonthlyRows(rows, uid, ttype, t) ==
    {r \in RowsOfType(rows, uid, ttype) : DateGE(r.date, StartOfMonth(t))}

\* round(float(100 * num / den), 1) in tenths, den > 0: the nearest tenth;
\* exactly between two tenths the double decides, so either may come out
RoundTenths(num, den) ==
    LET q == (1000 * num) \div den
        rem == (1000 * num) - q * den
    IN  IF 2 * rem < den THEN {q}
        ELSE IF 2 * rem > den THEN {q + 1}
        ELSE {q, q + 1}

\* the dicts get_dashboard_summary can return: amounts in cents, the rate in
\* tenths of a percent
DashboardSummaries(rows, uid, t) ==
    LET total_income == SumOrZero(RowsOfType(rows, uid, "credit"))
        total_expense == SumOrZero(RowsOfType(rows, uid, "debit"))
        monthly_spending == SumOrZero(MonthlyRows(rows, uid, "debit", t))
        monthly_income == SumOrZero(MonthlyRows(rows, uid, "credit", t))
        rates == IF monthly_income > 0
                 THEN RoundTenths(monthly_income - monthly_spending, monthly_income)
                 ELSE {0}
    IN  {[total_balance |-> ToFloat(total_income - total_expense),
          monthly_spending |-> ToFloat(monthly_spending),
          savings_rate |-> rate] : rate \in rates}

\* GET /api/dashboard/summary
GetDashboardSummary ==
    /\ \E d \in DashboardSummaries(ledger, DemoUser, today) :
          resp' = Response("summary", 200, 0, <<d>>)
    /\ UNCHANGED <<sessions, today, ledger, users, insights, run, now, snapshot>>

\* POST /chat: the handler has no await, so it runs as one step. `history` is
\* request.conversation_history, `ok` whether graph.invoke and the reading of
\* its result go through.
Chat(tid, text, history, ok) ==
    LET stored == IF sessions[tid].present THEN sessions[tid].history ELSE <<>>
        \* an empty list in the request is false: the stored list itself is used
        aliased == history = <<>>
        asked == Append(IF aliased THEN stored ELSE history, Msg("user", text))
        answered == Append(asked, Msg("assistant", AgentReply))
    IN  /\ Len(answered) <= MaxHistory
        /\ IF ok
           THEN /\ sessions' = [sessions EXCEPT ![tid] = Entry(answered)]
                /\ resp' = Response("chat", 200, 0, answered)
           ELSE /\ sessions' = [sessions EXCEPT
                                  ![tid] = Entry(IF aliased THEN asked ELSE stored)]
                /\ resp' = Response("chat", 500, 0, <<>>)
        /\ UNCHANGED <<today, ledger, users, insights, run, now, snapshot>>

\* POST /reset-session
ResetSession(tid) ==
    /\ sessions' = [sessions EXCEPT ![tid] = NoEntry]
    /\ resp' = Response("reset", 200, 0, <<>>)
    /\ UNCHANGED <<today, ledger, users, insights, run, now, snapshot>>

\* _get_user_metrics called on its own
ComputeMetrics(uid) ==
    /\ \E m \in UserMetrics(ledger, users, uid, today) :
          snapshot' = MetricsCall(today, m)
    /\ UNCHANGED <<sessions, today, ledger, users, insights, run, now, resp>>

----------------------------------------------------------------------------
(* Specifications *)

Goal == "I want to save $3000 for a down payment in 10 months."

RunDay == Date(2024, 3, 10)

\* no rows, or a month to date of 450.00 (120.00 of it on Food, the rest
\* without category) after a month of 300.00
PipelineLedgers ==
    {{},
     {Tx(1, 1, "debit", 12000, Date(2024, 3, 2), "Food"),
      Tx(2, 1, "debit", 33000, Date(2024, 3, 5), NULL),
      Tx(3, 1, "debit", 30000, Date(2024, 2, 20), NULL)}}

PipelineUsers == {{}, {UserRow(1, Goal)}}

Init ==
    /\ today = RunDay
    /\ ledger \in PipelineLedgers
    /\ users \in PipelineUsers
    /\ insights = <<>>
    /\ run = [r \in Runs |-> IdleRun]
    /\ now = 0
    /\ resp = NoResp
    /\ snapshot = NoCall
    /\ sessions = NoSessions

\* the pipeline: each slot serves one request
Next ==
    \/ \E r \in Runs : Start(r, DemoUser, 0)
    \/ \E r \in Runs : ReadMetrics(r)
    \/ \E r \in Runs, o \in Outcomes : AskAI(r, o)
    \/ \E r \in Runs : PersistStep(r)
    \/ \E r \in Runs, up \in BOOLEAN : Commit(r, up)
    \/ Tick

Spec == Init /\ [][Next]_vars

\* the store: requests one after the other, for either user, each beginning
\* at a later clock reading than the one before, with reads in between
BatchMax == Len(<<DraftA, DraftB>>)

InitStore ==
    /\ today = RunDay
    /\ ledger = {}
    /\ users = {UserRow(1, Goal), UserRow(2, NULL)}
    /\ insights = <<>>
    /\ run = [r \in Runs |-> IdleRun]
    /\ now = 0
    /\ resp = NoResp
    /\ snapshot = NoCall
    /\ sessions = NoSessions

StoreStep(maxRequests, markIds) ==
    \/ \E uid \in UserIds : now < maxRequests /\ Start(1, uid, 1)
    \/ ReadMetrics(1)
    \/ \E o \in StoreOutcomes : AskAI(1, o)
    \/ PersistStep(1)
    \/ \E up \in BOOLEAN : Commit(1, up)
    \/ Finish(1)
    \/ GetInsights
    \/ \E id \in markIds, up \in BOOLEAN : MarkInsightAsRead(id, up)

\* listing: enough requests to pass the limit, marks on the oldest rows
NextStore == StoreStep(MaxRequests, 1..MaxMarked)

SpecStore == InitStore /\ [][NextStore]_vars

\* marking: fewer requests, marks on every identifier and one past the last
NextMark == StoreStep(MaxMarkRequests, 1..(MaxMarkRequests * BatchMax + 1))

SpecMark == InitStore /\ [][NextMark]_vars

\* the parsing: one run at a time over the ways a model can lay out a valid
\* array of drafts in its answer
ParseArrays ==
    {JArr(<<DraftA, DraftB>>), JArr(<<DraftB>>), JArr(<<>>), JArr(<<DraftA, DraftBackticks>>)}

\* the text of an array as the model writes it
TextOf(v) ==
    IF \E i \in 1..Len(v.items) : \E k \in 1..Len(v.items[i].message) :
           v.items[i].message[k] = Backticks
    THEN <<Open(v), FENCE, Close(v)>>
    ELSE <<Payload(v)>>

\* text around a fenced block, and the line breaks inside it
Surroundings == {<<>>, <<PROSE>>, <<PROSE, WS>>, <<WS, PROSE>>}
Paddings == {<<>>, <<WS>>}

JsonFenced(pre, pad, body, post) ==
    pre \o <<FENCE, JSONWORD>> \o pad \o body \o pad \o <<FENCE>> \o post

PlainFenced(pre, pad, body, post) ==
    pre \o <<FENCE>> \o pad \o body \o pad \o <<FENCE>> \o post

Unfenced(pad, body) == pad \o body \o pad

ResponseTexts ==
    {JsonFenced(pre, pad, TextOf(v), post) :
        pre \in Surroundings, pad \in Paddings, v \in ParseArrays, post \in Surroundings}
    \cup {PlainFenced(pre, pad, TextOf(v), post) :
        pre \in Surroundings, pad \in Paddings, v \in ParseArrays, post \in Surroundings}
    \cup {Unfenced(pad, TextOf(v)) : pad \in Paddings, v \in ParseArrays}

InitParse ==
    /\ today = RunDay
    /\ ledger = {}
    /\ users = {UserRow(1, Goal)}
    /\ insights = <<>>
    /\ run = [r \in Runs |-> IdleRun]
    /\ now = 0
    /\ resp = NoResp
    /\ snapshot = NoCall
    /\ sessions = NoSessions

NextParse ==
    \/ Start(1, DemoUser, 0)
    \/ ReadMetrics(1)
    \/ \E c \in ResponseTexts : AskAI(1, Said(c))
    \/ PersistStep(1)
    \/ \E up \in BOOLEAN : Commit(1, up)

SpecParse == InitParse /\ [][NextParse]_vars

\* the chat endpoints
InitChat ==
    /\ today = RunDay
    /\ ledger = {}
    /\ users = {UserRow(1, Goal)}
    /\ insights = <<>>
    /\ run = [r \in Runs |-> IdleRun]
    /\ now = 0
    /\ resp = NoResp
    /\ snapshot = NoCall
    /\ sessions = NoSessions

NextChat ==
    \/ \E tid \in Threads, text \in UserTexts, h \in RequestHistories, ok \in BOOLEAN :
          Chat(tid, text, h, ok)
    \/ \E tid \in Threads : ResetSession(tid)

SpecChat == InitChat /\ [][NextChat]_vars

\* the metrics step alone, over the calendar and a pool of ledger rows
Dates ==
    {Date(y, m, d) : y \in FirstYear..(FirstYear + NumYears - 1), m \in 1..12, d \in 1..31}

ValidDates == {dt \in Dates : dt.d <= DaysInMonth(dt.y, dt.m)}

TxPool ==
    {Tx(1, 1, "debit", 12000, Date(2024, 3, 15), "Food"),
     Tx(2, 1, "debit", 4500, Date(2024, 2, 29), "Fun"),
     Tx(3, 1, "debit", 30000, Date(2023, 12, 31), NULL),
     Tx(4, 1, "credit", 250000, Date(2024, 3, 1), "Income"),
     Tx(5, 2, "debit", 990, Date(2024, 3, 15), "Food"),
     Tx(6, 1, "debit", 12000, Date(2024, 4, 2), "Fun")}

\* the demo user with a goal text, without one, and not seeded
MetricsUsers == {{UserRow(1, Goal)}, {UserRow(1, NULL)}, {}}

InitMetrics ==
    /\ today \in ValidDates
    /\ ledger \in {l \in SUBSET TxPool : Cardinality(l) <= MaxTx}
    /\ users \in MetricsUsers
    /\ insights = <<>>
    /\ run = [r \in Runs |-> IdleRun]
    /\ now = 0
    /\ resp = NoResp
    /\ snapshot = NoCall
    /\ sessions = NoSessions

NextMetrics == ComputeMetrics(DemoUser)

SpecMetrics == InitMetrics /\ [][NextMetrics]_vars

\* the dashboard summary over the same calendar and a pool of rows with
\* income: a rate of 66.66..., rows of another user, rows of a later month
DashboardPool ==
    {Tx(1, 1, "credit", 300000, Date(2024, 3, 1), "Income"),
     Tx(2, 1, "debit", 100000, Date(2024, 3, 5), "Rent"),
     Tx(3, 1, "debit", 4500, Date(2024, 2, 29), "Fun"),
     Tx(4, 1, "credit", 250000, Date(2024, 4, 2), "Income"),
     Tx(5, 2, "credit", 990, Date(2024, 3, 15), "Income"),
     Tx(6, 1, "debit", 350000, Date(2024, 3, 20), NULL)}

InitDashboard ==
    /\ today \in ValidDates
    /\ ledger \in {l \in SUBSET DashboardPool : Cardinality(l) <= MaxTx}
    /\ users = {UserRow(1, Goal)}
    /\ insights = <<>>
    /\ run = [r \in Runs |-> IdleRun]
    /\ now = 0
    /\ resp = NoResp
    /\ snapshot = NoCall
    /\ sessions = NoSessions

NextDashboard == GetDashboardSummary

SpecDashboard == InitDashboard /\ [][NextDashboard]_vars

----------------------------------------------------------------------------
(* Properties *)

\* the committed rows a run slot has written
RowsOf(r) == {i \in 1..Len(insights) : insights[i].run = r}

\* a model answer that is not a JSON array of complete drafts: not JSON at
\* all, a JSON value that is no array, or an array with an item lacking a key
Malformed(reply) ==
    /\ ~reply.raised
    /\ LET parsed == JsonLoads(CleanContent(reply.content))
       IN  \/ ~parsed.ok
           \/ parsed.value.kind # "array"
           \/ \E i \in 1..Len(parsed.value.items) :
                 \/ parsed.value.items[i].kind # "object"
                 \/ ~(DraftKeys \subseteq parsed.value.items[i].keys)

\* the run wrote exactly the fallback insight made of its own snapshot
WroteFallbackOnly(r) ==
    /\ Cardinality(RowsOf(r)) = 1
    /\ \A i \in RowsOf(r) :
          /\ insights[i].type = "trend"
          /\ insights[i].title = FallbackTitle
          /\ insights[i].message = FallbackMessage(run[r].metrics)

StoreErrors == {"NotFound", "PersistenceFailure"}

\* C1: a malformed model answer always leads to exactly one insight, of type
\* trend with the fallback title, being generated and persisted; the run never
\* persists zero insights and never fails (a store failure aside).
C1_MalformedYieldsOneFallback ==
    \A r \in Runs :
        (run[r].asked /\ Malformed(run[r].reply)) =>
            /\ run[r].data = Fallback(run[r].metrics)
            /\ run[r].pc = "error" => run[r].err \in StoreErrors
            /\ run[r].pc = "done" => WroteFallbackOnly(r)

\* C2: when the model call raises, nothing is re-raised: the generator
\* returns the single trend fallback it returns for an unparsable answer, and
\* a run that completes has persisted exactly that insight.
C2_ModelFailureFallsBack ==
    \A r \in Runs :
        (run[r].asked /\ run[r].reply.raised) =>
            /\ run[r].err # "ModelError"
            /\ run[r].data = AskResult(Said(<<PROSE>>), run[r].metrics).value
            /\ Len(run[r].data.items) = 1
            /\ run[r].data.items[1].type = "trend"
            /\ run[r].pc = "error" => run[r].err \in StoreErrors
            /\ run[r].pc = "done" => WroteFallbackOnly(r)

C2_Witness ==
    \E r \in Runs :
        /\ run[r].asked /\ run[r].reply.raised
        /\ run[r].pc = "done"
        /\ WroteFallbackOnly(r)

\* C3: a run for a user identifier without a user record stops after the
\* metrics step: the model is never called and nothing is added or committed.
C3_MissingUserShortCircuits ==
    \A r \in Runs :
        (run[r].pc # "idle" /\ ~(\E u \in users : u.id = run[r].user_id)) =>
            /\ ~run[r].asked
            /\ run[r].pending = <<>>
            /\ RowsOf(r) = {}

\* C4: the rows of one run visible in the store are all of its drafts once it
\* has committed and none of them in every other state, also after a failure
\* that follows the creation of some of its insights.
C4_PersistAllOrNothing ==
    \A r \in Runs :
        IF run[r].pc = "done"
        THEN Cardinality(RowsOf(r)) = Len(Iterate(run[r].data).items)
        ELSE RowsOf(r) = {}

C4_Witness ==
    \E r \in Runs :
        /\ run[r].pc = "error"
        /\ run[r].err = "KeyError"
        /\ run[r].idx = 2
        /\ RowsOf(r) = {}

\* C5: a run fails only with NotFound or PersistenceFailure; whatever the
\* model answered, generating the drafts and building the records raise
\* nothing past the orchestrator.
C5_OnlyStoreErrorsSurface ==
    \A r \in Runs : run[r].pc = "error" => run[r].err \in StoreErrors

\* the rows of the demo user in the store
DemoRows == {i \in 1..Len(insights) : insights[i].user_id = DemoUser}

\* the store row a listed item shows
RowShown(item) == {i \in 1..Len(insights) : insights[i].id_ = item.id}

C7_MarkReadIdempotent ==
    [][\A id \in 1..(MaxMarkRequests * BatchMax + 1), up \in BOOLEAN :
          (/\ MarkInsightAsRead(id, up)
           /\ \E i \in 1..Len(insights) : insights[i].id_ = id /\ insights[i].is_read)
          => /\ insights' = insights
             /\ up => resp'.status = 200]_vars

C7_Witness ==
    /\ resp.op = "mark_read"
    /\ resp.status = 200
    /\ resp.was_read

\* C8: marking an identifier that no insight has answers not-found and leaves
\* the insights table, every read flag included, as it was.
C8_MarkReadUnknownId ==
    [][\A id \in 1..(MaxMarkRequests * BatchMax + 1), up \in BOOLEAN :
          (/\ MarkInsightAsRead(id, up)
           /\ \A i \in 1..Len(insights) : insights[i].id_ # id)
          => /\ resp'.status = 404
             /\ insights' = insights]_vars

C8_Witness ==
    /\ resp.op = "mark_read"
    /\ resp.status = 404
    /\ \E i \in 1..Len(insights) : insights[i].is_read
    /\ \E i \in 1..Len(insights) : ~insights[i].is_read

\* the calendar, stated on its own: the month before, and its length
MonthBefore(y, m) == IF m = 1 THEN [y |-> y - 1, m |-> 12] ELSE [y |-> y, m |-> m - 1]

MonthLength(y, m) ==
    IF m = 2
    THEN (IF y % 400 = 0 THEN 29 ELSE IF y % 100 = 0 THEN 28
          ELSE IF y % 4 = 0 THEN 29 ELSE 28)
    ELSE <<31, 0, 31, 30, 31, 30, 31, 31, 30, 31, 30, 31>>[m]

\* C9: the prior period is the whole calendar month before today's month: from
\* its day 1 to its last day (December of the year before when today is in
\* January). The two dates depend on today's year and month alone, and today
\* ranges over every day of every month, so they are the same for every day
\* of a month.
C9_PriorPeriodIsPreviousMonth ==
    snapshot.computed =>
        LET pm == MonthBefore(today.y, today.m)
        IN  /\ snapshot.last_month_start = Date(pm.y, pm.m, 1)
            /\ snapshot.last_month_end = Date(pm.y, pm.m, MonthLength(pm.y, pm.m))
            /\ snapshot.start_of_month = Date(today.y, today.m, 1)

C9_Witness ==
    /\ snapshot.computed
    /\ today = Date(2024, 3, 31)
    /\ snapshot.last_month_start = Date(2024, 2, 1)
    /\ snapshot.last_month_end = Date(2024, 2, 29)

\* the debit rows of a user dated from the first of today's month to today
RowsToDate(uid) ==
    {r \in ledger : /\ r.user_id = uid
                    /\ r.transaction_type = "debit"
                    /\ r.date.y = today.y /\ r.date.m = today.m
                    /\ r.date.d <= today.d}

\* C10: current_spend and the top category count the debit rows dated from the
\* first day of today's month to today, and no row dated after today.
C10_CurrentPeriodEndsToday ==
    snapshot.computed =>
        /\ snapshot.metrics.current_month_spending = SumOrZero(RowsToDate(DemoUser))
        /\ \/ snapshot.metrics.top_category = NoCategoryLabel
           \/ \E r \in RowsToDate(DemoUser) :
                 r.category = snapshot.metrics.top_category

\* the debit rows of a user dated inside the month before today's month
RowsOfPriorMonth(uid) ==
    LET pm == MonthBefore(today.y, today.m)
    IN  {r \in ledger : /\ r.user_id = uid
                        /\ r.transaction_type = "debit"
                        /\ r.date.y = pm.y /\ r.date.m = pm.m}

\* C11: with no categorized debit row of the user in the current period the
\* metrics step yields the top category "N/A" with amount zero, and a spend
\* of zero for a period in which no debit row of the user lies.
C11_NoCategorizedDebitGivesSentinel ==
    snapshot.computed =>
        /\ (\A r \in RowsToDate(DemoUser) : r.category = NULL) =>
              /\ snapshot.metrics.top_category = NoCategoryLabel
              /\ snapshot.metrics.top_category_amount = 0
        /\ RowsToDate(DemoUser) = {} => snapshot.metrics.current_month_spending = 0
        /\ RowsOfPriorMonth(DemoUser) = {} => snapshot.metrics.last_month_spending = 0

\* C12: the goals of the snapshot are the goal text of the user record, or the
\* default sentence when the record has no goal text; they are never null.
C12_GoalsTextOrDefault ==
    snapshot.computed =>
        /\ \A u \in users :
              u.id = DemoUser =>
                  snapshot.metrics.user_goals =
                      IF u.financial_goals = NULL THEN DefaultGoals
                      ELSE u.financial_goals
        /\ snapshot.metrics.user_goals # NULL

\* the model answered with the text of an empty JSON array
AnsweredEmptyArray(r) ==
    /\ run[r].asked
    /\ ~run[r].reply.raised
    /\ JsonLoads(CleanContent(run[r].reply.content)) = [ok |-> TRUE, value |-> JArr(<<>>)]

\* C13: when the model returns a well-formed empty array the generator hands
\* back that empty list and not the fallback, and the run, unless the store
\* fails at the commit, completes with no insight persisted and a count of 0.
C13_EmptyArrayIsValid ==
    \A r \in Runs :
        AnsweredEmptyArray(r) =>
            /\ run[r].data = JArr(<<>>)
            /\ run[r].data # Fallback(run[r].metrics)
            /\ run[r].pending = <<>>
            /\ RowsOf(r) = {}
            /\ run[r].pc = "error" => run[r].err = "PersistenceFailure"
            /\ run[r].pc = "done" => run[r].count = 0

C13_Witness ==
    \E r \in Runs :
        /\ AnsweredEmptyArray(r)
        /\ run[r].pc = "done"
        /\ run[r].count = 0
        /\ RowsOf(r) = {}
        /\ resp = Response("generate", 200, 0, <<>>)

\* the documented values of the type column
InsightTypes == {"trend", "alert", "achievement"}

\* C14: every persisted insight has a type among trend, alert, achievement;
\* an item of the model's array with another type is dropped or coerced, and
\* the items of the batch with a valid type are persisted by the completed run.
C14_PersistedTypesInEnum ==
    /\ \A i \in 1..Len(insights) : insights[i].type \in InsightTypes
    /\ \A r \in Runs :
          (run[r].pc = "done" /\ run[r].data.kind = "array") =>
              \A k \in 1..Len(run[r].data.items) :
                  run[r].data.items[k].type \in InsightTypes =>
                      \E i \in RowsOf(r) :
                          /\ insights[i].title = run[r].data.items[k].title
                          /\ insights[i].type = run[r].data.items[k].type

\* C15: the step that completes a run adds to the store, at once, exactly one
\* insight per draft, in the order of the drafts, each owned by the user of the
\* run and unread; the count answered is the number of rows added; no other
\* step adds a row.
C15_RunAddsOneInsightPerDraft ==
    [][/\ \A r \in Runs :
             (run[r].pc = "commit" /\ run'[r].pc = "done") =>
                 LET drafts == Iterate(run[r].data).items
                     base == Len(insights)
                 IN  /\ Len(insights') = base + Len(drafts)
                     /\ \A i \in 1..base : insights'[i] = insights[i]
                     /\ \A k \in 1..Len(drafts) :
                           /\ insights'[base + k].user_id = run[r].user_id
                           /\ insights'[base + k].title = drafts[k].title
                           /\ insights'[base + k].message = drafts[k].message
                           /\ insights'[base + k].type = drafts[k].type
                           /\ ~insights'[base + k].is_read
                     /\ run'[r].count = Len(insights') - base
                     /\ resp' = Response("generate", 200, Len(insights') - base, <<>>)
       /\ Len(insights') # Len(insights) =>
             \E r \in Runs : run[r].pc = "commit" /\ run'[r].pc = "done"
      ]_vars

\* a run for the second user has completed with two insights, after a read
C15_Witness ==
    /\ run[1].pc = "done"
    /\ run[1].user_id = 2
    /\ resp = Response("generate", 200, 2, <<>>)
    /\ Len(insights) >= 3
    /\ insights[1].is_read
    /\ \A i \in (Len(insights) - 1)..Len(insights) :
          insights[i].user_id = 2 /\ ~insights[i].is_read

\* the committed rows of a run slot, in the order of their identifiers
RowsInOrder(r) == SelectSeq(insights, LAMBDA x : x.run = r)

\* C16: with two runs for the same user interleaved at their suspension
\* points, the store holds, for every completed run and whatever the other run
\* has done, one row per insight of that run with the insight's content, under
\* identifiers no other row has: nothing is lost, overwritten or deduplicated.
C16_ConcurrentRunsKeepAllInsights ==
    /\ \A i \in 1..Len(insights) : insights[i].id_ = i
    /\ \A r \in Runs :
          run[r].pc = "done" =>
              LET drafts == Iterate(run[r].data).items
                  rows == RowsInOrder(r)
              IN  /\ Len(rows) = Len(drafts)
                  /\ \A k \in 1..Len(rows) :
                        /\ rows[k].user_id = run[r].user_id
                        /\ rows[k].title = drafts[k].title
                        /\ rows[k].message = drafts[k].message
                        /\ rows[k].type = drafts[k].type
    /\ (\A r \in Runs : run[r].pc = "done") =>
          Len(insights) = Len(RowsInOrder(1)) + Len(RowsInOrder(2))

\* both runs are complete with the same two drafts each, and the run that
\* began later committed first
C16_Witness ==
    /\ \A r \in Runs : run[r].pc = "done" /\ run[r].user_id = DemoUser
    /\ run[1].data = run[2].data
    /\ Len(insights) = 4
    /\ insights[1].created_at > insights[4].created_at
    /\ insights[1].run # insights[4].run

\* the run took the except branch: the call raised or the text did not parse
ReachedFallback(r) ==
    /\ run[r].asked
    /\ \/ run[r].reply.raised
       \/ ~JsonLoads(CleanContent(run[r].reply.content)).ok

\* C17: two runs that reach the fallback with equal snapshots hold the same
\* single insight (title, message, type), whether the model raised or
\* answered with text that does not parse.
C17_FallbackDependsOnSnapshotOnly ==
    \A r1, r2 \in Runs :
        (/\ ReachedFallback(r1) /\ ReachedFallback(r2)
         /\ run[r1].metrics = run[r2].metrics) =>
            /\ Len(run[r1].data.items) = 1
            /\ Len(run[r2].data.items) = 1
            /\ run[r1].data.items[1].title = run[r2].data.items[1].title
            /\ run[r1].data.items[1].message = run[r2].data.items[1].message
            /\ run[r1].data.items[1].type = run[r2].data.items[1].type

\* one run's call raised, the other's answer was prose, on a snapshot with spend
C17_Witness ==
    /\ run[1].asked /\ run[1].reply = Raised
    /\ run[2].asked /\ run[2].reply = Said(<<PROSE>>)
    /\ run[1].metrics = run[2].metrics
    /\ run[1].metrics.current_month_spending > 0
    /\ run[1].data = run[2].data
    /\ run[1].data.items[1].title = FallbackTitle

\* the message has the part
Mentions(msg, part) == \E k \in 1..Len(msg) : msg[k] = part

\* C18: the fallback message shows the current spend, the prior spend, the
\* top-category amount and the top category label of the snapshot, and a
\* snapshot differing in one of them gives another message.
C18_FallbackMessageInterpolatesSnapshot ==
    \A r \in Runs :
        ReachedFallback(r) =>
            LET m == run[r].metrics
                msg == run[r].data.items[1].message
            IN  /\ Mentions(msg, FloatStr(m.current_month_spending))
                /\ Mentions(msg, FloatStr(m.last_month_spending))
                /\ Mentions(msg, FloatStr(m.top_category_amount))
                /\ Mentions(msg, Text(m.top_category))
                /\ FallbackMessage([m EXCEPT !.current_month_spending = @ + 100]) # msg
                /\ FallbackMessage([m EXCEPT !.last_month_spending = @ + 100]) # msg
                /\ FallbackMessage([m EXCEPT !.top_category_amount = @ + 100]) # msg
                /\ FallbackMessage([m EXCEPT !.top_category = "Rent"]) # msg

\* C19: insights of equal creation time are listed by identifier descending,
\* so the store's contents determine the list.
C19_TiesListedByIdDescending ==
    resp.op = "list" =>
        \A k \in 1..(Len(resp.items) - 1) :
            resp.items[k].created_at = resp.items[k + 1].created_at =>
                resp.items[k].id > resp.items[k + 1].id

\* the columns of a row that are set at its creation
Created(row) ==
    [id_ |-> row.id_, user_id |-> row.user_id, title |-> row.title,
     message |-> row.message, type |-> row.type, created_at |-> row.created_at]

C21_NoTransactionAcrossModelCall ==
    \A r \in Runs :
        /\ run[r].pc = "generate" => ~run[r].txn
        /\ run[r].pc \in {"idle", "done", "error"} => ~run[r].txn

\* C22: a valid array of drafts is handed on as it is by the parsing when it
\* comes bare, and when it comes inside a json fence or a plain fence, with or
\* without text before and after the fence.
C22_FenceStrippingKeepsPayload ==
    \A v \in ParseArrays, pad \in Paddings :
        /\ run[1].asked /\ run[1].reply = Said(Unfenced(pad, TextOf(v)))
              => run[1].data = v
        /\ \A pre \in Surroundings, post \in Surroundings :
              /\ run[1].asked /\ run[1].reply = Said(JsonFenced(pre, pad, TextOf(v), post))
                    => run[1].data = v
              /\ run[1].asked /\ run[1].reply = Said(PlainFenced(pre, pad, TextOf(v), post))
                    => run[1].data = v

\* the sum of the amounts of a set of ledger rows, taken identifier by
\* identifier
RECURSIVE AmountsUpTo(_, _)
AmountsUpTo(S, n) ==
    IF n = 0 THEN 0
    ELSE AmountsUpTo(S, n - 1)
         + (IF \E r \in S : r.id = n THEN (CHOOSE r \in S : r.id = n).amount ELSE 0)

Total(S) == AmountsUpTo(S, Cardinality(TxPool))

\* C23: current_spend and prior_spend are each the sum of the amounts of the
\* rows of the requested user that are debits dated inside the period (the
\* month to date, the month before); no other row counts, and the sum of no
\* rows is zero.
C23_SpendsAreSumsOverPeriod ==
    snapshot.computed =>
        /\ snapshot.metrics.current_month_spending = Total(RowsToDate(DemoUser))
        /\ snapshot.metrics.last_month_spending = Total(RowsOfPriorMonth(DemoUser))

\* the sum of the rows of a category among the user's debits of the month to date
CategorySum(c) == Total({r \in RowsToDate(DemoUser) : r.category = c})

\* C24: with a categorized debit row of the user in the current period, the
\* top category reported is a category of such a row whose sum over the period
\* is maximal, the amount reported is that sum, and rows without category are
\* in no category's sum.
C24_TopCategoryIsMaximal ==
    (/\ snapshot.computed
     /\ \E r \in RowsToDate(DemoUser) : r.category # NULL) =>
        /\ \E r \in RowsToDate(DemoUser) :
              r.category # NULL /\ r.category = snapshot.metrics.top_category
        /\ snapshot.metrics.top_category_amount = CategorySum(snapshot.metrics.top_category)
        /\ \A r \in RowsToDate(DemoUser) :
              r.category # NULL =>
                  CategorySum(r.category) <= snapshot.metrics.top_category_amount

\* the rows of the user of one direction dated in today's calendar month
RowsOfThisMonth(uid, ttype) ==
    {r \in ledger : /\ r.user_id = uid
                    /\ r.transaction_type = ttype
                    /\ r.date.y = today.y /\ r.date.m = today.m}

\* C25: the dashboard summary answers for every ledger; its savings rate is 0
\* when the user's credits of the current month sum to 0 and is
\* (income - spending) / income * 100 otherwise, and its balance is the sum of
\* all credits of the user minus the sum of all debits.
C25_SummaryNeverDividesByZero ==
    resp.op = "summary" =>
        LET d == resp.items[1]
            income == Total(RowsOfThisMonth(DemoUser, "credit"))
            spending == Total(RowsOfThisMonth(DemoUser, "debit"))
        IN  /\ resp.status = 200
            /\ income = 0 => d.savings_rate = 0
            /\ income > 0 => d.savings_rate * income = 1000 * (income - spending)
            /\ d.total_balance = Total({r \in ledger : r.user_id = DemoUser /\ r.transaction_type = "credit"})
                                 - Total({r \in ledger : r.user_id = DemoUser /\ r.transaction_type = "debit"})

\* C26: a chat request that fails leaves the sessions dict as it was (no
\* message added, no thread entry created); a step that lengthens or creates
\* a thread's history is a successful chat, and it adds to the history the
\* thread had the user message and then the assistant response, nothing else.
C26_FailedChatLeavesSessions ==
    [][/\ (resp'.op = "chat" /\ resp'.status = 500) => sessions' = sessions
       /\ \A tid \in Threads :
             (sessions'[tid] # sessions[tid] /\ sessions'[tid].present) =>
                 /\ resp'.op = "chat" /\ resp'.status = 200
                 /\ \E text \in UserTexts :
                       sessions'[tid].history =
                           sessions[tid].history
                               \o <<Msg("user", text), Msg("assistant", AgentReply)>>
      ]_vars

====
